---- MODULE Spec2Model ----
(***************************************************************************)
(* Model of the NVMe wipe workflow: the file-backed phase state store      *)
(* (state.py), the planner (plan.py), the wipe executor and verification   *)
(* sampler (execute.py) and the phase drivers (collect.py, plan.py,        *)
(* execute.py, report.py).                                                 *)
(*                                                                         *)
(* Every CLI phase is one operating-system process: it constructs a        *)
(* StateManager (loading build/state.json), checks its gate, persists      *)
(* "running", does its work and persists the outcome.  A phase is split    *)
(* into a Start step (construction, gate, first update_phase) and a Finish *)
(* step (body and last update_phase) because the state file is observable  *)
(* and the process can be terminated between the two writes.               *)
(*                                                                         *)
(* Spec is the workflow.  SpecFunctions applies the planner, the sampler   *)
(* and the capability classification (collect.py) to inputs the workflow   *)
(* does not enumerate.  SpecStore drives the StateManager alone through    *)
(* its public methods, with the document's timestamps.  SpecWorkflow is    *)
(* run_full_workflow (main.py) beside the phase commands, each command     *)
(* run to its end in one step and recorded in last.  SpecHandles is two    *)
(* StateManager objects on one file, each making one update_phase.         *)
(***************************************************************************)
EXTENDS Integers, Sequences, FiniteSets, TLC

VARIABLES
    disk,   \* content of build/state.json
    mem,    \* StateManager._state of the running process
    pc,     \* "idle", or the phase whose process is between its two writes
    last,   \* what the most recently started phase process did (history)
    runs,   \* number of phase processes started so far
    call    \* last function or store method applied: its input and its result

vars == <<disk, mem, pc, last, runs, call>>

\* ------------------------------------------------------------------ bounds
MaxDevices == 1
MaxRuns == 4

\* Phase commands and workflows started in SpecWorkflow, where every command
\* is one step.
MaxCommands == 5

\* Pairs of StateManager handles opened in SpecHandles.
MaxHandlePairs == 2

\* --------------------------------------------------------------- constants
Phases == {"collect", "plan", "execute", "report"}
Methods == {"crypto_erase", "secure_erase", "format"}
Statuses == {"pending", "running", "completed", "failed"}
DevicePaths == {"/dev/nvme0n1", "/dev/nvme1n1"}

\* ------------------------------------------------------------ dictionaries
\* A Python dict is a function whose domain is its set of keys.
EmptyDict == [k \in {} |-> TRUE]

Has(d, k) == k \in DOMAIN d

\* dict.get(k, default)
Get(d, k, default) == IF k \in DOMAIN d THEN d[k] ELSE default

\* d.update(p): the keys of p override, every other key of d is kept.
DictUpdate(d, p) ==
    [k \in (DOMAIN d) \cup (DOMAIN p) |-> IF k \in DOMAIN p THEN p[k] ELSE d[k]]

\* Truthiness of a dict: `if data:` is false for None and for {}.
Truthy(d) == DOMAIN d # {}

\* ------------------------------------------------------------- state store
\* StateManager._state is either the workflow document or {} (the file
\* existed and json.load failed).  The file is absent, a complete document,
\* empty (opened with 'w', nothing written yet) or a prefix of a document.
PendingPhases == [p \in Phases |-> [status |-> "pending", data |-> EmptyDict]]

FreshState == [kind |-> "state", phases |-> PendingPhases]
EmptyState == [kind |-> "empty", phases |-> PendingPhases]
AbsentFile == [kind |-> "absent", phases |-> PendingPhases]
EmptyFile == [kind |-> "truncated", phases |-> PendingPhases]
PartialFile == [kind |-> "partial", phases |-> PendingPhases]

\* Mutant: the constructor starts every store from the fresh document.
load_state_always_fresh(file) == FreshState

\* StateManager._load_state
load_state(file) ==
    IF file.kind = "absent" THEN FreshState
    ELSE IF file.kind = "state" THEN [kind |-> "state", phases |-> file.phases]
    ELSE EmptyState

\* The values json.dump cannot serialise are the datetime objects that
\* EraseOperation.model_dump() puts under erase_operation.start_time and
\* .end_time; `default=str` writes str(value) for them.  A datetime object is
\* denoted by its repr, and DatetimeStr gives the text str() returns for it.
DatetimeObjects == {"datetime.datetime(2026, 11, 4, 12, 0)", "datetime.datetime(2026, 11, 4, 12, 5)"}

DatetimeStr(v) ==
    IF v = "datetime.datetime(2026, 11, 4, 12, 0)" THEN "2026-11-04 12:00:00"
    ELSE IF v = "datetime.datetime(2026, 11, 4, 12, 5)" THEN "2026-11-04 12:05:00"
    ELSE v

\* json.dump(..., default=str) on the data of one phase.
json_dump(data) ==
    [k \in DOMAIN data |->
        IF k = "erase_operation" THEN
            [f \in DOMAIN data[k] |->
                IF f \in {"start_time", "end_time"} THEN DatetimeStr(data[k][f])
                ELSE data[k][f]]
        ELSE data[k]]

\* StateManager.save_state: the document that json.dump leaves in the file
\* when it runs to completion.
save_state(st) ==
    [kind |-> "state",
     phases |-> [p \in DOMAIN st.phases |->
                    [status |-> st.phases[p].status, data |-> json_dump(st.phases[p].data)]]]

\* Mutant: the new data replaces what the phase had recorded.
update_phase_replaces_data(st, phase, status, data) ==
    [st EXCEPT !.phases[phase] =
        [status |-> status, data |-> IF Truthy(data) THEN data ELSE @.data]]

\* StateManager.update_phase, in memory (the caller persists save_state of it).
update_phase(st, phase, status, data) ==
    [st EXCEPT !.phases[phase] =
        [status |-> status,
         data |-> IF Truthy(data) THEN DictUpdate(@.data, data) ELSE @.data]]

\* self._state["phases"] raises KeyError when _state is {}.
Raises(st) == st.kind # "state"

\* StateManager.get_phase_status: "KeyError" stands for the exception that
\* self._state["phases"] raises when _state is {}.
get_phase_status(st, phase) ==
    IF Raises(st) THEN "KeyError"
    ELSE IF phase \in DOMAIN st.phases THEN st.phases[phase].status
    ELSE "pending"

\* StateManager.get_phase_data where it returns (it raises when Raises(st)).
get_phase_data(st, phase) ==
    IF phase \in DOMAIN st.phases THEN st.phases[phase].data ELSE EmptyDict

\* What a reader of the state file sees for a phase.
PersistedStatus(phase) == get_phase_status(load_state(disk), phase)

PersistedData(phase) == get_phase_data(load_state(disk), phase)

\* ------------------------------------------------------------ inputs: OS
\* None of Python / null of JSON.
None == "None"

\* A capability set as check_erase_support returns it: all three keys.
Caps(crypto, secure, format) ==
    [m \in Methods |->
        IF m = "crypto_erase" THEN crypto ELSE IF m = "secure_erase" THEN secure ELSE format]

\* The capability sets of the devices the workflow meets: nothing supported,
\* format only, everything supported.
ListedCapSets == {Caps(FALSE, FALSE, FALSE), Caps(FALSE, FALSE, TRUE), Caps(TRUE, TRUE, TRUE)}

\* What collect finds for one listed device: id-ctrl readable or not, and
\* the capability set derived from it.
ListedDevices ==
    {[path |-> p, readable |-> TRUE, erase_support |-> es] :
        p \in DevicePaths, es \in ListedCapSets}
    \cup {[path |-> p, readable |-> FALSE, erase_support |-> Caps(FALSE, FALSE, FALSE)] :
        p \in DevicePaths}

Distinct(seq) == \A i, j \in 1..Len(seq) : i # j => seq[i].path # seq[j].path

Listings ==
    {l \in UNION {[1..n -> ListedDevices] : n \in 0..MaxDevices} : Distinct(l)}

\* Outcomes of subprocess.run for the wipe command.
Stderrs == {"", "NVMe status: Access Denied"}
ExitCodes == {0, 1}

CmdOutcomes ==
    {[kind |-> "exited", returncode |-> rc, stdout |-> "", stderr |-> e] :
        rc \in ExitCodes \ {0}, e \in Stderrs}
    \cup {[kind |-> "exited", returncode |-> 0, stdout |-> "", stderr |-> ""]}
    \cup {[kind |-> k, returncode |-> 0, stdout |-> "", stderr |-> ""] :
        k \in {"TimeoutExpired", "FileNotFoundError", "PermissionError"}}

\* Outcomes of subprocess.run for the dd sample read: a sample is the pair
\* (number of bytes read, number of non-zero bytes among them).
SampleSizes == {0, 1000}
NonZeroCounts == {0, 5, 600}

Samples == {s \in SampleSizes \X NonZeroCounts : s[2] <= s[1]}

ReadOutcomes ==
    {[kind |-> "exited", returncode |-> 0, total_bytes |-> s[1], non_zero_bytes |-> s[2]] :
        s \in Samples}
    \cup {[kind |-> k, returncode |-> rc, total_bytes |-> 0, non_zero_bytes |-> 0] :
        k \in {"exited"}, rc \in {1}}
    \cup {[kind |-> k, returncode |-> 0, total_bytes |-> 0, non_zero_bytes |-> 0] :
        k \in {"TimeoutExpired"}}

\* The sample is read only after a wipe command that exited with 0
\* (execute.py:49-52 and 242-248); after any other outcome no read is drawn.
ReadsAfter(c) ==
    IF c.kind = "exited" /\ c.returncode = 0
    THEN ReadOutcomes
    ELSE {r \in ReadOutcomes : r.kind = "TimeoutExpired"}

\* What the safety probes of planning report, and the two cases the
\* workflow meets: nothing found, and a mounted device that is in use.
SafetyProbes == [mounted : {"no", "findmnt", "mount"}, in_use : BOOLEAN]

ListedProbes ==
    {[mounted |-> "no", in_use |-> FALSE], [mounted |-> "findmnt", in_use |-> TRUE]}

\* ----------------------------------------------------------------- history
NoOperation == [method |-> "none", status |-> "none", error_message |-> "none"]
NoVerification == [success |-> FALSE, error |-> "none"]

\* phase/result: which phase process ran last and how it ended ("running"
\* while it is between its writes); cmd, returncode: what subprocess.run did
\* for the wipe command; invoked: the argument vectors handed to
\* subprocess.run, in order; operation: the EraseOperation execute_wipe
\* returned; read, read_returncode: what subprocess.run did for the sample
\* read of the driver's verification ("none" when the driver did not verify)
\* and read_total_bytes the size of the sample it returned;
\* available: what _validate_device answered in a plan run (TRUE when it was
\* not called); report: the JSON report a report run wrote; wiped, kept in
\* SpecWorkflow: the device path in the wipe command most recently handed to
\* subprocess.run by any command so far.
NoReport == [generated |-> FALSE]

NoRun ==
    [phase |-> "none", result |-> "none",
     cmd |-> "none", returncode |-> 0, invoked |-> <<>>, operation |-> NoOperation,
     read |-> "none", read_returncode |-> 0, read_total_bytes |-> 0, available |-> TRUE,
     report |-> NoReport, wiped |-> "none"]

NoCall == [fn |-> "none"]

Run(phase, result) ==
    [NoRun EXCEPT !.phase = phase, !.result = result]

\* -------------------------------------------------------------------- Init
Init ==
    /\ disk = AbsentFile
    /\ mem = EmptyState
    /\ pc = "idle"
    /\ last = NoRun
    /\ runs = 0
    /\ call = NoCall


\* Mutant: the priority order reversed (weakest supported method first).
determine_erase_method_weakest_first(erase_support) ==
    IF Get(erase_support, "format", FALSE) THEN "format"
    ELSE IF Get(erase_support, "secure_erase", FALSE) THEN "secure_erase"
    ELSE IF Get(erase_support, "crypto_erase", FALSE) THEN "crypto_erase"
    ELSE "ValueError"

\* Mutant: format is assumed when no flag is set.
determine_erase_method_defaults_to_format(erase_support) ==
    IF Get(erase_support, "crypto_erase", FALSE) THEN "crypto_erase"
    ELSE IF Get(erase_support, "secure_erase", FALSE) THEN "secure_erase"
    ELSE "format"

\* ----------------------------------------------------------------- planner
\* WipePlanner._determine_erase_method; "ValueError" when it raises.
determine_erase_method(erase_support) ==
    IF Get(erase_support, "crypto_erase", FALSE) THEN "crypto_erase"
    ELSE IF Get(erase_support, "secure_erase", FALSE) THEN "secure_erase"
    ELSE IF Get(erase_support, "format", FALSE) THEN "format"
    ELSE "ValueError"

\* Mutant: secure erase built with the crypto-erase setting.
build_command_one_setting(device, method) ==
    IF method \in {"crypto_erase", "secure_erase"} THEN
        [command |-> "sudo",
         args |-> <<"nvme", "format", device.path, "--ses=2", "--force">>,
         description |-> "Erase on " \o device.path]
    ELSE IF method = "format" THEN
        [command |-> "sudo",
         args |-> <<"nvme", "format", device.path, "--force">>,
         description |-> "Format on " \o device.path]
    ELSE
        [command |-> "ValueError", args |-> <<>>,
         description |-> "Unknown erase method: " \o method]

\* WipePlanner._build_command; command "ValueError" when it raises.
build_command(device, method) ==
    IF method = "crypto_erase" THEN
        [command |-> "sudo",
         args |-> <<"nvme", "format", device.path, "--ses=2", "--force">>,
         description |-> "Crypto erase on " \o device.path]
    ELSE IF method = "secure_erase" THEN
        [command |-> "sudo",
         args |-> <<"nvme", "format", device.path, "--ses=1", "--force">>,
         description |-> "Secure erase on " \o device.path]
    ELSE IF method = "format" THEN
        [command |-> "sudo",
         args |-> <<"nvme", "format", device.path, "--force">>,
         description |-> "Format on " \o device.path]
    ELSE
        [command |-> "ValueError", args |-> <<>>,
         description |-> "Unknown erase method: " \o method]

\* WipePlanner._estimate_duration.  The capacity string is "<x.y> <unit>" as
\* _format_bytes writes it, or "Unknown"; tenths is x.y in tenths, so that
\* int(capacity_num * 2) is (tenths * 2) \div 10, and likewise for 5 and 0.5.
estimate_duration(capacity, method) ==
    IF capacity.unit = "TB" THEN
        LET minutes ==
                IF method = "crypto_erase" THEN (capacity.tenths * 2) \div 10
                ELSE IF method = "secure_erase" THEN (capacity.tenths * 5) \div 10
                ELSE (capacity.tenths * 5) \div 100
        IN  [known |-> TRUE, minutes |-> minutes,
             text |-> "~" \o ToString(minutes) \o " minutes"]
    ELSE [known |-> FALSE, minutes |-> 0, text |-> "Unknown (depends on capacity)"]

\* WipePlanner._check_safety_issues.  probes.mounted: "findmnt" when findmnt
\* names the device, "mount" when findmnt is missing and the mount table
\* names it, "no" otherwise; probes.in_use: lsof lists the device.
check_safety_issues(device_path, probes) ==
    (IF probes.mounted = "findmnt"
        THEN <<"Device " \o device_path \o " is currently mounted">>
     ELSE IF probes.mounted = "mount"
        THEN <<"Device " \o device_path \o " appears to be mounted">>
     ELSE <<>>)
    \o (IF probes.in_use
            THEN <<"Device " \o device_path \o " is in use by other processes">>
        ELSE <<>>)

\* Mutant: the safety issues are not appended.
generate_warnings_without_issues(method, safety_issues) ==
    <<"THIS OPERATION WILL PERMANENTLY DESTROY ALL DATA ON THE DEVICE",
      "This operation cannot be undone",
      "Ensure you have backed up any important data",
      IF method = "crypto_erase" THEN "Crypto erase will destroy encryption keys"
      ELSE IF method = "secure_erase" THEN "Secure erase will overwrite all data"
      ELSE "Format will remove all data and partition tables">>

\* WipePlanner._generate_warnings (each warning without the warning sign it
\* starts with).
generate_warnings(method, safety_issues) ==
    <<"THIS OPERATION WILL PERMANENTLY DESTROY ALL DATA ON THE DEVICE",
      "This operation cannot be undone",
      "Ensure you have backed up any important data",
      IF method = "crypto_erase" THEN "Crypto erase will destroy encryption keys"
      ELSE IF method = "secure_erase" THEN "Secure erase will overwrite all data"
      ELSE "Format will remove all data and partition tables">>
    \o safety_issues

\* WipePlanner._select_device
select_device(devices) == devices[1]

\* Mutant: the selected device is not validated.
create_plan_skips_validation(st, available, probes) ==
    LET devices == Get(get_phase_data(st, "collect"), "devices", <<>>) IN
    IF devices = <<>> THEN
        [ok |-> FALSE, error |-> "No devices found. Run collect phase first."]
    ELSE
        LET selected_device == select_device(devices)
            erase_method == determine_erase_method(selected_device.erase_support)
        IN  IF erase_method = "ValueError" THEN
                [ok |-> FALSE, error |-> "No supported erase methods found"]
            ELSE
                LET safety_issues == check_safety_issues(selected_device.path, probes) IN
                [ok |-> TRUE,
                 plan |-> [device |-> selected_device,
                           erase_method |-> erase_method,
                           command |-> build_command(selected_device, erase_method),
                           safety_issues |-> safety_issues,
                           warnings |-> generate_warnings(erase_method, safety_issues)]]

\* WipePlanner.create_plan on the loaded state; available: the outcome of
\* _validate_device; probes: what findmnt, mount and lsof report.
\* [ok |-> FALSE, error] when it raises ValueError.
create_plan(st, available, probes) ==
    LET devices == Get(get_phase_data(st, "collect"), "devices", <<>>) IN
    IF devices = <<>> THEN
        [ok |-> FALSE, error |-> "No devices found. Run collect phase first."]
    ELSE
        LET selected_device == select_device(devices)
            erase_method == determine_erase_method(selected_device.erase_support)
        IN  IF ~available THEN
                [ok |-> FALSE,
                 error |-> "Device " \o selected_device.path \o " is no longer available"]
            ELSE IF erase_method = "ValueError" THEN
                [ok |-> FALSE, error |-> "No supported erase methods found"]
            ELSE
                LET safety_issues == check_safety_issues(selected_device.path, probes) IN
                [ok |-> TRUE,
                 plan |-> [device |-> selected_device,
                           erase_method |-> erase_method,
                           command |-> build_command(selected_device, erase_method),
                           safety_issues |-> safety_issues,
                           warnings |-> generate_warnings(erase_method, safety_issues)]]

\* ---------------------------------------------------------------- executor
\* The argument vectors handed to subprocess.run.
WipeArgv(command_info) == <<command_info.command>> \o command_info.args

ReadArgv(device_path) ==
    <<"sudo", "dd", "if=" \o device_path, "bs=1M", "count=100", "status=none">>


\* Mutant: no handler for TimeoutExpired, which then reaches the last one.
run_wipe_command_no_timeout_handler(command_info, c) ==
    IF c.kind = "exited" THEN
        IF c.returncode = 0 THEN
            [success |-> TRUE, output |-> c.stdout, error |-> c.stderr]
        ELSE
            [success |-> FALSE, output |-> c.stdout,
             error |-> IF c.stderr # "" THEN c.stderr
                       ELSE "Command failed with return code " \o ToString(c.returncode)]
    ELSE IF c.kind = "FileNotFoundError" THEN
        [success |-> FALSE, output |-> "",
         error |-> "Command not found: " \o command_info.command]
    ELSE
        [success |-> FALSE, output |-> "", error |-> "Unexpected error: " \o c.kind]

\* Mutant: the exit status is not looked at.
run_wipe_command_ignores_returncode(command_info, c) ==
    IF c.kind = "exited" THEN
        [success |-> TRUE, output |-> c.stdout, error |-> c.stderr]
    ELSE IF c.kind = "TimeoutExpired" THEN
        [success |-> FALSE, output |-> "", error |-> "Command timed out after 1 hour"]
    ELSE IF c.kind = "FileNotFoundError" THEN
        [success |-> FALSE, output |-> "",
         error |-> "Command not found: " \o command_info.command]
    ELSE
        [success |-> FALSE, output |-> "", error |-> "Unexpected error: " \o c.kind]

\* WipeExecutor._run_wipe_command: the result dict for what subprocess.run
\* did (c): it returned with an exit status, or raised.
run_wipe_command(command_info, c) ==
    IF c.kind = "exited" THEN
        IF c.returncode = 0 THEN
            [success |-> TRUE, output |-> c.stdout, error |-> c.stderr]
        ELSE
            [success |-> FALSE, output |-> c.stdout,
             error |-> IF c.stderr # "" THEN c.stderr
                       ELSE "Command failed with return code " \o ToString(c.returncode)]
    ELSE IF c.kind = "TimeoutExpired" THEN
        [success |-> FALSE, output |-> "", error |-> "Command timed out after 1 hour"]
    ELSE IF c.kind = "FileNotFoundError" THEN
        [success |-> FALSE, output |-> "",
         error |-> "Command not found: " \o command_info.command]
    ELSE
        [success |-> FALSE, output |-> "", error |-> "Unexpected error: " \o c.kind]

\* The classification of verify_wipe (lines 166-177).  The code compares
\* non_zero_bytes with the floats total_bytes * 0.01 and total_bytes * 0.5;
\* for every sample size dd can return here (1 .. 100 MiB) these comparisons
\* agree with the exact ones below (0.5 is exact, and total_bytes * 0.01
\* rounds to the integer total_bytes / 100 whenever that is an integer).
expected_result(erase_method) ==
    IF erase_method = "secure_erase" THEN "zeros"
    ELSE IF erase_method = "crypto_erase" THEN "random"
    ELSE "zeros"


\* Mutant: both thresholds inclusive.
wipe_effective_inclusive(erase_method, total_bytes, non_zero_bytes) ==
    IF erase_method = "secure_erase" THEN 100 * non_zero_bytes <= total_bytes
    ELSE IF erase_method = "crypto_erase" THEN 2 * non_zero_bytes >= total_bytes
    ELSE 100 * non_zero_bytes <= total_bytes

wipe_effective(erase_method, total_bytes, non_zero_bytes) ==
    IF erase_method = "secure_erase" THEN 100 * non_zero_bytes < total_bytes
    ELSE IF erase_method = "crypto_erase" THEN 2 * non_zero_bytes > total_bytes
    ELSE 100 * non_zero_bytes < total_bytes

\* Mutant: the percentage is cut after two decimals instead of rounded.
zero_percentage_truncated(zero_bytes, total_bytes) == (zero_bytes * 10000) \div total_bytes

\* round((zero_bytes / total_bytes) * 100, 2), in hundredths of a percent:
\* the nearest hundredth.  Where the quotient lies exactly between two
\* hundredths, the float arithmetic gives one of the two (the even one
\* here); none of the sample sizes below has such a quotient.
zero_percentage(zero_bytes, total_bytes) ==
    LET q == (zero_bytes * 10000) \div total_bytes
        r == (zero_bytes * 10000) % total_bytes
    IN  IF 2 * r < total_bytes THEN q
        ELSE IF 2 * r > total_bytes THEN q + 1
        ELSE IF q % 2 = 0 THEN q ELSE q + 1

\* Mutant: an empty sample counts as a sample without non-zero bytes.
verify_wipe_empty_sample_is_zeros(device_path, erase_method, r) ==
    IF r.kind = "TimeoutExpired" THEN
        [success |-> FALSE, error |-> "Verification timed out"]
    ELSE IF r.kind # "exited" THEN
        [success |-> FALSE, error |-> "Verification failed: " \o r.kind]
    ELSE IF r.returncode # 0 THEN
        [success |-> FALSE, error |-> "Failed to read device for verification"]
    ELSE
        [success |-> TRUE,
         total_bytes |-> r.total_bytes,
         zero_bytes |-> r.total_bytes - r.non_zero_bytes,
         non_zero_bytes |-> r.non_zero_bytes,
         zero_percentage |-> IF r.total_bytes = 0 THEN 10000
                             ELSE zero_percentage(r.total_bytes - r.non_zero_bytes,
                                                  r.total_bytes),
         expected_result |-> expected_result(erase_method),
         wipe_effective |-> IF r.total_bytes = 0 THEN erase_method # "crypto_erase"
                            ELSE wipe_effective(erase_method, r.total_bytes, r.non_zero_bytes),
         verification_method |-> "dd_analysis"]

\* WipeExecutor.verify_wipe for what the dd read did (r).  An empty sample
\* divides by zero at line 160, which the last handler catches.
verify_wipe(device_path, erase_method, r) ==
    IF r.kind = "TimeoutExpired" THEN
        [success |-> FALSE, error |-> "Verification timed out"]
    ELSE IF r.kind # "exited" THEN
        [success |-> FALSE, error |-> "Verification failed: " \o r.kind]
    ELSE IF r.returncode # 0 THEN
        [success |-> FALSE, error |-> "Failed to read device for verification"]
    ELSE IF r.total_bytes = 0 THEN
        [success |-> FALSE, error |-> "Verification failed: division by zero"]
    ELSE
        [success |-> TRUE,
         total_bytes |-> r.total_bytes,
         zero_bytes |-> r.total_bytes - r.non_zero_bytes,
         non_zero_bytes |-> r.non_zero_bytes,
         zero_percentage |-> zero_percentage(r.total_bytes - r.non_zero_bytes, r.total_bytes),
         expected_result |-> expected_result(erase_method),
         wipe_effective |-> wipe_effective(erase_method, r.total_bytes, r.non_zero_bytes),
         verification_method |-> "dd_analysis"]

\* Mutant: a failed command leaves the operation as it was created.
erase_operation_stays_running(method, result) ==
    IF result.success THEN
        [method |-> method, status |-> "completed", error_message |-> None]
    ELSE
        [method |-> method, status |-> "running", error_message |-> None]

\* The EraseOperation execute_wipe ends with, from the command's result dict
\* (lines 50-67).
erase_operation(method, result) ==
    IF result.success THEN
        [method |-> method, status |-> "completed", error_message |-> None]
    ELSE
        [method |-> method, status |-> "failed", error_message |-> result.error]

\* Mutant: a failed command is run a second time.
execute_wipe_retries_once(st, c, r) ==
    LET plan_data == get_phase_data(st, "plan") IN
    IF ~Has(plan_data, "execution_plan") THEN
        [raised |-> TRUE, error |-> "No execution plan found. Run plan phase first.",
         invoked |-> <<>>]
    ELSE
        LET execution_plan == plan_data["execution_plan"]
            device == execution_plan.device
            command_info == execution_plan.command
            result == run_wipe_command(command_info, c)
            operation == erase_operation(execution_plan.erase_method, result)
        IN  [raised |-> FALSE,
             invoked |-> IF result.success
                         THEN <<WipeArgv(command_info), ReadArgv(device.path)>>
                         ELSE <<WipeArgv(command_info), WipeArgv(command_info)>>,
             verification |-> IF result.success
                              THEN verify_wipe(device.path, execution_plan.erase_method, r)
                              ELSE NoVerification,
             results |-> [erase_operation |-> operation,
                          command_output |-> result.output,
                          command_error |-> result.error]]

\* WipeExecutor.execute_wipe.  raised: the ValueError of line 29.  Otherwise
\* results is the returned dict, invoked the subprocess calls made, and
\* verification what it stored in its local result dict (not returned).
execute_wipe(st, c, r) ==
    LET plan_data == get_phase_data(st, "plan") IN
    IF ~Has(plan_data, "execution_plan") THEN
        [raised |-> TRUE, error |-> "No execution plan found. Run plan phase first.",
         invoked |-> <<>>]
    ELSE
        LET execution_plan == plan_data["execution_plan"]
            device == execution_plan.device
            command_info == execution_plan.command
            result == run_wipe_command(command_info, c)
            operation == erase_operation(execution_plan.erase_method, result)
        IN  [raised |-> FALSE,
             invoked |-> IF result.success
                         THEN <<WipeArgv(command_info), ReadArgv(device.path)>>
                         ELSE <<WipeArgv(command_info)>>,
             verification |-> IF result.success
                              THEN verify_wipe(device.path, execution_plan.erase_method, r)
                              ELSE NoVerification,
             results |-> [erase_operation |-> operation,
                          command_output |-> result.output,
                          command_error |-> result.error]]


\* Mutant: the driver does not verify.
attach_verification_skipped(st, execution_results, r) == execution_results

\* _run_execute_phase, lines 229-234: the second verification, of a
\* completed erase, with verify_wipe's default method.
attach_verification(st, execution_results, r) ==
    IF execution_results["erase_operation"].status = "completed" THEN
        LET device_path == get_phase_data(st, "plan")["execution_plan"].device.path IN
        DictUpdate(execution_results,
                   [verification |-> verify_wipe(device_path, "format", r)])
    ELSE execution_results

\* Mutant: the summary reads verif['is_all_zeros'] before it looks at
\* verif['success'].
display_raises_before_success_test(execution_results) ==
    /\ execution_results["erase_operation"].status = "completed"
    /\ Has(execution_results, "verification")

\* _run_execute_phase, lines 240-255: the summary raises KeyError when it
\* reads verif['is_all_zeros'], which verify_wipe never sets.
display_raises(execution_results) ==
    /\ execution_results["erase_operation"].status = "completed"
    /\ Has(execution_results, "verification")
    /\ execution_results["verification"].success

\* _run_execute_phase after update_phase("execute", "running"): the state it
\* leaves, and the subprocess calls it made.
run_execute_phase(st, c, r1, r2) ==
    LET w == execute_wipe(st, c, r1) IN
    IF w.raised THEN
        [st |-> update_phase(st, "execute", "failed", [error |-> w.error]),
         invoked |-> w.invoked,
         operation |-> NoOperation,
         verified |-> FALSE]
    ELSE
        LET execution_results == attach_verification(st, w.results, r2)
            saved == update_phase(st, "execute", "completed", execution_results)
        IN  [st |-> IF display_raises(execution_results)
                    THEN update_phase(saved, "execute", "failed", [error |-> "'is_all_zeros'"])
                    ELSE saved,
             invoked |-> IF Has(execution_results, "verification")
                         THEN w.invoked \o
                              <<ReadArgv(get_phase_data(st, "plan")["execution_plan"].device.path)>>
                         ELSE w.invoked,
             operation |-> w.results["erase_operation"],
             verified |-> Has(execution_results, "verification")]


\* Mutants: a gate that admits every run; a gate that only asks that the
\* predecessor was started.
report_gate_open(st) == TRUE

execute_gate_started(st) == get_phase_status(st, "plan") # "pending"

\* ------------------------------------------------------------------- gates
\* The checks that open _run_plan_phase, _run_execute_phase, _run_report_phase.
plan_gate(st) == get_phase_status(st, "collect") = "completed"

execute_gate(st) == get_phase_status(st, "plan") = "completed"

report_gate(st) == get_phase_status(st, "execute") = "completed"

\* ------------------------------------------------------------ phase: collect
\* collect.main up to and including update_phase("collect", "running"): there
\* is no gate; update_phase raises KeyError outside the try when _state is {}.
CollectStart ==
    /\ pc = "idle"
    /\ runs < MaxRuns
    /\ runs' = runs + 1
    /\ LET st == load_state(disk) IN
       IF Raises(st) THEN
            /\ last' = Run("collect", "crashed")
            /\ UNCHANGED <<disk, mem, pc, call>>
       ELSE
            /\ mem' = update_phase(st, "collect", "running", EmptyDict)
            /\ disk' = save_state(mem')
            /\ pc' = "collect"
            /\ last' = Run("collect", "running")
            /\ UNCHANGED call

\* The device dicts collect.main appends: one per device whose info was read.
device_info_list(listing) ==
    LET read == SelectSeq(listing, LAMBDA e : e.readable) IN
    [i \in 1..Len(read) |->
        [path |-> read[i].path, erase_support |-> read[i].erase_support]]

\* Mutant: with no device listed, collect returns without a second write.
collect_body_returns_early(st, listing) ==
    IF listing = <<>> THEN st
    ELSE
        update_phase(st, "collect", "completed",
            [devices |-> device_info_list(listing),
             device_count |-> Len(device_info_list(listing))])

\* collect.main after "running": the try block and its handlers.
collect_body(st, listing) ==
    IF listing = <<>> THEN
        update_phase(st, "collect", "failed", [error |-> "No devices found"])
    ELSE
        update_phase(st, "collect", "completed",
            [devices |-> device_info_list(listing),
             device_count |-> Len(device_info_list(listing))])

CollectFinish ==
    /\ pc = "collect"
    /\ \E listing \in Listings :
        /\ disk' = save_state(collect_body(mem, listing))
        /\ mem' = EmptyState
        /\ pc' = "idle"
        /\ last' = Run("collect", "returned")
        /\ UNCHANGED <<runs, call>>

\* --------------------------------------------------------------- phase: plan
\* plan.main and _run_plan_phase up to update_phase("plan", "running").
PlanStart ==
    /\ pc = "idle"
    /\ runs < MaxRuns
    /\ runs' = runs + 1
    /\ LET st == load_state(disk) IN
       IF Raises(st) THEN
            /\ last' = Run("plan", "crashed")
            /\ UNCHANGED <<disk, mem, pc, call>>
       ELSE IF ~plan_gate(st) THEN
            /\ last' = Run("plan", "refused")
            /\ UNCHANGED <<disk, mem, pc, call>>
       ELSE
            /\ mem' = update_phase(st, "plan", "running", EmptyDict)
            /\ disk' = save_state(mem')
            /\ pc' = "plan"
            /\ last' = Run("plan", "running")
            /\ UNCHANGED call

\* Mutant: a planning error is swallowed and the phase still ends completed.
plan_body_always_completed(st, available, probes) ==
    LET r == create_plan(st, available, probes) IN
    IF r.ok THEN update_phase(st, "plan", "completed", [execution_plan |-> r.plan])
    ELSE update_phase(st, "plan", "completed", [error |-> r.error])

\* _run_plan_phase after "running".
plan_body(st, available, probes) ==
    LET r == create_plan(st, available, probes) IN
    IF r.ok THEN update_phase(st, "plan", "completed", [execution_plan |-> r.plan])
    ELSE update_phase(st, "plan", "failed", [error |-> r.error])

PlanFinish ==
    /\ pc = "plan"
    /\ \E available \in BOOLEAN, probes \in ListedProbes :
        /\ disk' = save_state(plan_body(mem, available, probes))
        /\ mem' = EmptyState
        /\ pc' = "idle"
        /\ last' = [Run("plan", "returned") EXCEPT
                        !.available =
                            available \/ Get(get_phase_data(mem, "collect"), "devices", <<>>) = <<>>]
        /\ UNCHANGED <<runs, call>>

\* ------------------------------------------------------------ phase: execute
\* execute.main and _run_execute_phase up to update_phase("execute", "running").
ExecuteStart ==
    /\ pc = "idle"
    /\ runs < MaxRuns
    /\ runs' = runs + 1
    /\ LET st == load_state(disk) IN
       IF Raises(st) THEN
            /\ last' = Run("execute", "crashed")
            /\ UNCHANGED <<disk, mem, pc, call>>
       ELSE IF ~execute_gate(st) THEN
            /\ last' = Run("execute", "refused")
            /\ UNCHANGED <<disk, mem, pc, call>>
       ELSE
            /\ mem' = update_phase(st, "execute", "running", EmptyDict)
            /\ disk' = save_state(mem')
            /\ pc' = "execute"
            /\ last' = Run("execute", "running")
            /\ UNCHANGED call

\* _run_execute_phase after "running".
ExecuteFinish ==
    /\ pc = "execute"
    /\ \E c \in CmdOutcomes : \E r1 \in ReadsAfter(c), r2 \in ReadsAfter(c) :
        LET e == run_execute_phase(mem, c, r1, r2) IN
        /\ disk' = save_state(e.st)
        /\ mem' = EmptyState
        /\ pc' = "idle"
        /\ last' = [Run("execute", "returned") EXCEPT
                        !.cmd = c.kind, !.returncode = c.returncode,
                        !.invoked = e.invoked, !.operation = e.operation,
                        !.read = IF e.verified THEN r2.kind ELSE "none",
                        !.read_returncode = IF e.verified THEN r2.returncode ELSE 0,
                        !.read_total_bytes = IF e.verified THEN r2.total_bytes ELSE 0]
        /\ UNCHANGED <<runs, call>>

\* ------------------------------------------------------------- phase: report
\* ReportGenerator.generate_reports: the error it raises, or None.  rendered:
\* whether the report files could be written.
generate_reports(st, rendered) ==
    LET collect_data == get_phase_data(st, "collect")
        plan_data == get_phase_data(st, "plan")
        execute_data == get_phase_data(st, "execute")
    IN  IF ~(Truthy(collect_data) /\ Truthy(plan_data) /\ Truthy(execute_data)) THEN
            "Missing required phase data. Ensure all phases completed successfully."
        ELSE IF ~Has(collect_data, "devices") THEN "'devices'"
        ELSE IF collect_data["devices"] = <<>> THEN "list index out of range"
        ELSE IF ~Has(plan_data, "execution_plan") THEN "'execution_plan'"
        ELSE IF ~Has(execute_data, "erase_operation") THEN "'erase_operation'"
        ELSE IF ~rendered THEN "report file could not be written"
        ELSE None

\* ReportGenerator._generate_json_report: the report_data it dumps, without
\* the metadata, the system information and the times.
json_report(st) ==
    LET collect_data == get_phase_data(st, "collect")
        plan_data == get_phase_data(st, "plan")
        execute_data == get_phase_data(st, "execute")
    IN  [generated |-> TRUE,
         device_info |-> collect_data["devices"][1],
         execution_plan |-> plan_data["execution_plan"],
         wipe_summary |-> [method |-> execute_data["erase_operation"].method,
                           status |-> execute_data["erase_operation"].status]]

\* report.main and _run_report_phase up to update_phase("report", "running").
ReportStart ==
    /\ pc = "idle"
    /\ runs < MaxRuns
    /\ runs' = runs + 1
    /\ LET st == load_state(disk) IN
       IF Raises(st) THEN
            /\ last' = Run("report", "crashed")
            /\ UNCHANGED <<disk, mem, pc, call>>
       ELSE IF ~report_gate(st) THEN
            /\ last' = Run("report", "refused")
            /\ UNCHANGED <<disk, mem, pc, call>>
       ELSE
            /\ mem' = update_phase(st, "report", "running", EmptyDict)
            /\ disk' = save_state(mem')
            /\ pc' = "report"
            /\ last' = Run("report", "running")
            /\ UNCHANGED call

\* _run_report_phase after "running".
report_body(st, rendered) ==
    LET error == generate_reports(st, rendered) IN
    IF error = None THEN
        update_phase(st, "report", "completed", [reports |-> "wipe_report"])
    ELSE update_phase(st, "report", "failed", [error |-> error])

ReportFinish ==
    /\ pc = "report"
    /\ \E rendered \in BOOLEAN :
        /\ disk' = save_state(report_body(mem, rendered))
        /\ mem' = EmptyState
        /\ pc' = "idle"
        /\ last' = [Run("report", "returned") EXCEPT
                        !.report = IF generate_reports(mem, rendered) = None
                                   THEN json_report(mem) ELSE NoReport]
        /\ UNCHANGED <<runs, call>>

\* ------------------------------------------------------ process termination
\* The phase process is terminated between its two writes: the file keeps
\* the "running" record.
Kill ==
    /\ pc # "idle"
    /\ pc' = "idle"
    /\ mem' = EmptyState
    /\ last' = Run(pc, "killed")
    /\ UNCHANGED <<disk, runs, call>>

\* save_state opens the file with mode 'w', which empties it, and json.dump
\* then writes the document piecewise.  The process is terminated inside the
\* save that ends its phase, after the open (the file is empty) or after
\* part of the document was written.
torn_file(after_open) == IF after_open THEN EmptyFile ELSE PartialFile

KillDuringSave ==
    /\ pc # "idle"
    /\ \E after_open \in BOOLEAN : disk' = torn_file(after_open)
    /\ pc' = "idle"
    /\ mem' = EmptyState
    /\ last' = Run(pc, "killed")
    /\ UNCHANGED <<runs, call>>

Next ==
    \/ CollectStart
    \/ CollectFinish
    \/ PlanStart
    \/ PlanFinish
    \/ ExecuteStart
    \/ ExecuteFinish
    \/ ReportStart
    \/ ReportFinish
    \/ Kill
    \/ KillDuringSave

Spec == Init /\ [][Next]_vars

\* ------------------------------------------------- planner and sampler alone
\* The planner and the verification sampler applied to inputs the workflow
\* above does not enumerate: every erase_support dict over the three method
\* keys (a key may be missing), and samples around both thresholds.
SupportDicts == UNION {[keys -> BOOLEAN] : keys \in SUBSET Methods}

ThresholdSizes == {1, 99, 100, 101, 200, 1000}
ThresholdCounts == {0, 1, 2, 3, 5, 9, 10, 11, 50, 51, 100, 101, 499, 500, 501, 600, 1000}

ThresholdReads ==
    {[kind |-> "exited", returncode |-> 0, total_bytes |-> s[1], non_zero_bytes |-> s[2]] :
        s \in {x \in ThresholdSizes \X ThresholdCounts : x[2] <= x[1]}}
    \cup ReadOutcomes

\* The state plan sees after a collect of one device with this erase_support.
CollectedState(path, erase_support) ==
    update_phase(FreshState, "collect", "completed",
        [devices |-> <<[path |-> path, erase_support |-> erase_support]>>,
         device_count |-> 1])

\* Outcomes of subprocess.run(["sudo", "nvme", "id-ctrl", ...], check=True):
\* exit 0 with a JSON object (info: the fna and oacs keys it has, a key may
\* be missing), exit 0 with text that is no JSON, CalledProcessError for a
\* non-zero exit, FileNotFoundError when sudo cannot be started.
AttributeValues == 0 .. 7

ControllerInfos == UNION {[keys -> AttributeValues] : keys \in SUBSET {"fna", "oacs"}}

IdCtrlOutcomes ==
    {[kind |-> "exited", json |-> TRUE, info |-> i] : i \in ControllerInfos}
    \cup {[kind |-> k, json |-> FALSE, info |-> EmptyDict] :
            k \in {"exited", "CalledProcessError", "FileNotFoundError"}}

\* The second id-ctrl call, whose output is not read.
FormatQueryOutcomes ==
    {[kind |-> k, json |-> TRUE, info |-> EmptyDict] :
        k \in {"exited", "CalledProcessError", "FileNotFoundError"}}

\* bool(x & mask) for a one-bit mask.
BitSet(x, mask) == (x \div mask) % 2 = 1

\* Mutants: crypto erase read from bit 1 of fna; secure erase read from
\* bit 0 of oacs.
check_sanitize_support_crypto_bit_1(q) ==
    IF q.kind = "exited" /\ q.json THEN
        [secure_erase |-> BitSet(Get(q.info, "oacs", 0), 2),
         crypto_erase |-> BitSet(Get(q.info, "fna", 0), 2)]
    ELSE [secure_erase |-> FALSE, crypto_erase |-> FALSE]

check_sanitize_support_secure_bit_0(q) ==
    IF q.kind = "exited" /\ q.json THEN
        [secure_erase |-> BitSet(Get(q.info, "oacs", 0), 1),
         crypto_erase |-> BitSet(Get(q.info, "fna", 0), 4)]
    ELSE [secure_erase |-> FALSE, crypto_erase |-> FALSE]

\* DeviceCollector._check_sanitize_support: the bare except answers every
\* failure of the call or of json.loads.
check_sanitize_support(q) ==
    IF q.kind = "exited" /\ q.json THEN
        [secure_erase |-> BitSet(Get(q.info, "oacs", 0), 2),
         crypto_erase |-> BitSet(Get(q.info, "fna", 0), 4)]
    ELSE [secure_erase |-> FALSE, crypto_erase |-> FALSE]

\* DeviceCollector._check_format_support: only CalledProcessError is caught.
check_format_support(q) ==
    IF q.kind = "exited" THEN [raised |-> FALSE, value |-> TRUE]
    ELSE IF q.kind = "CalledProcessError" THEN [raised |-> FALSE, value |-> FALSE]
    ELSE [raised |-> TRUE, value |-> FALSE]

\* DeviceCollector.check_erase_support for what its two id-ctrl calls did.
check_erase_support(sanitize_query, format_query) ==
    LET sanitize_support == check_sanitize_support(sanitize_query)
        format_support == check_format_support(format_query)
    IN  IF format_support.raised THEN Caps(FALSE, FALSE, TRUE)
        ELSE Caps(Get(sanitize_support, "crypto_erase", FALSE),
                  Get(sanitize_support, "secure_erase", FALSE),
                  format_support.value)

ApplyCheckEraseSupport ==
    /\ \E q1 \in IdCtrlOutcomes, q2 \in FormatQueryOutcomes :
        call' = [fn |-> "check_erase_support",
                 sanitize_query |-> q1, format_query |-> q2,
                 result |-> check_erase_support(q1, q2)]
    /\ UNCHANGED <<disk, mem, pc, last, runs>>

\* Capacities as _get_device_capacity reports them.
Capacities ==
    {[unit |-> "TB", tenths |-> t] : t \in {10, 13, 19, 20, 36, 1000, 10239}}
    \cup {[unit |-> "GB", tenths |-> 5120], [unit |-> "Unknown", tenths |-> 0]}

ApplyEstimateDuration ==
    /\ \E capacity \in Capacities :
        call' = [fn |-> "estimate_duration", capacity |-> capacity,
                 result |-> [m \in Methods |-> estimate_duration(capacity, m)]]
    /\ UNCHANGED <<disk, mem, pc, last, runs>>

ApplyBuildCommand ==
    /\ \E p \in DevicePaths, method \in Methods \cup {"sanitize"} :
        call' = [fn |-> "build_command", path |-> p, method |-> method,
                 result |-> build_command([path |-> p], method)]
    /\ UNCHANGED <<disk, mem, pc, last, runs>>

ApplyCreatePlan ==
    /\ \E es \in SupportDicts, p \in DevicePaths, available \in BOOLEAN,
          probes \in SafetyProbes :
        call' = [fn |-> "create_plan",
                 erase_support |-> es, available |-> available, probes |-> probes,
                 result |-> create_plan(CollectedState(p, es), available, probes),
                 file |-> save_state(plan_body(CollectedState(p, es), available, probes))]
    /\ UNCHANGED <<disk, mem, pc, last, runs>>

\* The state execute sees after a plan for one collected device.
PlannedState(path, erase_support) ==
    plan_body(update_phase(CollectedState(path, erase_support), "plan", "running", EmptyDict),
              TRUE, [mounted |-> "no", in_use |-> FALSE])

\* Two readings of datetime.now(), the second made after the first, on a
\* clock that does not step back in between.
ClockReadings == {<<"t1", "t1">>, <<"t1", "t2">>, <<"t2", "t2">>}

\* erase_operation.model_dump() at line 79: the operation with the
\* start_time of line 39 and the end_time of line 46 (line 70 is not
\* reached: _run_wipe_command catches every exception).
EraseOperation_model_dump(operation, start_time, end_time) ==
    [method |-> operation.method,
     status |-> operation.status,
     error_message |-> operation.error_message,
     start_time |-> start_time,
     end_time |-> end_time]

ApplyExecuteWipe ==
    /\ \E es \in {Caps(FALSE, FALSE, TRUE), Caps(TRUE, TRUE, TRUE)},
          c \in CmdOutcomes, r \in ReadOutcomes, now \in ClockReadings :
        LET w == execute_wipe(PlannedState("/dev/nvme0n1", es), c, r) IN
        call' = [fn |-> "execute_wipe", cmd |-> c, read |-> r,
                 raised |-> w.raised,
                 verification |-> w.verification,
                 erase_operation |->
                    EraseOperation_model_dump(w.results["erase_operation"], now[1], now[2])]
    /\ UNCHANGED <<disk, mem, pc, last, runs>>

ApplyVerifyWipe ==
    /\ \E m \in Methods, p \in DevicePaths, r \in ThresholdReads :
        call' = [fn |-> "verify_wipe",
                 erase_method |-> m, read |-> r,
                 result |-> verify_wipe(p, m, r)]
    /\ UNCHANGED <<disk, mem, pc, last, runs>>

NextFunctions ==
    \/ ApplyCheckEraseSupport
    \/ ApplyEstimateDuration
    \/ ApplyBuildCommand
    \/ ApplyCreatePlan
    \/ ApplyExecuteWipe
    \/ ApplyVerifyWipe

SpecFunctions == Init /\ [][NextFunctions]_vars

\* ------------------------------------------------------- the full workflow
\* run_full_workflow beside the phase commands.  Every phase command runs to
\* its end in one step (collect_main, plan_main, execute_main, report_main:
\* the start and the finish of the phase process above, composed), and the
\* workflow takes one step per call it makes and one for its prompt.  call
\* holds the workflow's frame: at, the call or prompt it is about to make;
\* before, the state file when its StateManager was constructed; mains, the
\* phase commands it has called; confirm, the answer typed; invoked, the
\* subprocess calls of execute_main; returned, its return value.
\* collect.main on the state file.
collect_main(file, listing) ==
    LET st == load_state(file) IN
    IF Raises(st) THEN [raised |-> TRUE, file |-> file, invoked |-> <<>>, report |-> NoReport]
    ELSE [raised |-> FALSE, invoked |-> <<>>, report |-> NoReport,
          file |-> save_state(collect_body(
                      update_phase(st, "collect", "running", EmptyDict), listing))]

\* plan.main on the state file.
plan_main(file, available, probes) ==
    LET st == load_state(file) IN
    IF Raises(st) THEN [raised |-> TRUE, file |-> file, invoked |-> <<>>, report |-> NoReport]
    ELSE IF ~plan_gate(st) THEN [raised |-> FALSE, file |-> file, invoked |-> <<>>, report |-> NoReport]
    ELSE [raised |-> FALSE, invoked |-> <<>>, report |-> NoReport,
          file |-> save_state(plan_body(
                      update_phase(st, "plan", "running", EmptyDict), available, probes))]

\* execute.main on the state file.
execute_main(file, c, r1, r2) ==
    LET st == load_state(file) IN
    IF Raises(st) THEN [raised |-> TRUE, file |-> file, invoked |-> <<>>, report |-> NoReport]
    ELSE IF ~execute_gate(st) THEN [raised |-> FALSE, file |-> file, invoked |-> <<>>, report |-> NoReport]
    ELSE LET e == run_execute_phase(
                      update_phase(st, "execute", "running", EmptyDict), c, r1, r2)
         IN  [raised |-> FALSE, invoked |-> e.invoked, report |-> NoReport,
              file |-> save_state(e.st)]

\* report.main on the state file.
report_main(file, rendered) ==
    LET st == load_state(file) IN
    IF Raises(st) THEN [raised |-> TRUE, file |-> file, invoked |-> <<>>, report |-> NoReport]
    ELSE IF ~report_gate(st) THEN [raised |-> FALSE, file |-> file, invoked |-> <<>>, report |-> NoReport]
    ELSE LET running == update_phase(st, "report", "running", EmptyDict) IN
         [raised |-> FALSE, invoked |-> <<>>,
          report |-> IF generate_reports(running, rendered) = None
                     THEN json_report(running) ELSE NoReport,
          file |-> save_state(report_body(running, rendered))]

\* What the phase commands meet in the runs of this section: no device, or
\* one device, unreadable or (under either path) supporting every method; a
\* wipe command
\* that exits with 0 or 1; a sample read that fails or returns a sample that
\* is nearly all zeros.
WorkflowListings ==
    {l \in Listings :
        \A i \in 1..Len(l) :
            /\ i = 1
            /\ l[i].readable => l[i].erase_support = Caps(TRUE, TRUE, TRUE)
            /\ ~l[i].readable => l[i].path = "/dev/nvme0n1"}

WorkflowCmdOutcomes == {c \in CmdOutcomes : c.kind = "exited" /\ c.stderr = ""}

WorkflowReads ==
    {r \in ReadOutcomes :
        /\ r.kind = "exited"
        /\ r.returncode # 0 \/ (0 < r.non_zero_bytes /\ 2 * r.non_zero_bytes <= r.total_bytes)}

WorkflowReadsAfter(c) == IF ReadsAfter(c) = ReadOutcomes THEN WorkflowReads ELSE ReadsAfter(c)

\* What the user types at the prompt of line 48.
Answers == {"YES", "yes", "YES ", "no", ""}

\* Mutant: the answer is compared without regard to case.
confirmed_ignoring_case(confirm) == confirm \in {"YES", "yes"}

\* Line 50: the answer that lets the workflow go on.
confirmed(confirm) == confirm = "YES"

\* Mutant: the workflow goes from planning straight to execute_main.
next_step_without_prompt(at) ==
    IF at = "collect" THEN "plan"
    ELSE IF at = "plan" THEN "execute"
    ELSE IF at = "confirm" THEN "execute"
    ELSE IF at = "execute" THEN "report"
    ELSE "done"

\* The order of run_full_workflow's statements: what follows each call.
next_step(at) ==
    IF at = "collect" THEN "plan"
    ELSE IF at = "plan" THEN "confirm"
    ELSE IF at = "confirm" THEN "execute"
    ELSE IF at = "execute" THEN "report"
    ELSE "done"

\* The test after each call (lines 33, 41, 56, 64), on the StateManager the
\* workflow constructed at line 26, before any phase command ran.
phase_completed(w, phase) ==
    get_phase_status(load_state(w.before), phase) = "completed"

\* The frame after the call of the phase command named by w.at returned m.
after_main(w, m) ==
    LET go_on == ~m.raised /\ phase_completed(w, w.at)
        at == IF go_on THEN next_step(w.at) ELSE "done"
    IN  [w EXCEPT !.mains = Append(@, w.at),
                  !.invoked = @ \o m.invoked,
                  !.at = at,
                  !.returned = IF at # "done" THEN "none"
                               ELSE IF go_on THEN "True" ELSE "False"]

\* The history after the phase command returned m: the report it wrote and
\* the device of the wipe command it invoked, if any.
history_after(phase, m) ==
    [Run(phase, IF m.raised THEN "crashed" ELSE "returned") EXCEPT
        !.invoked = m.invoked,
        !.report = m.report,
        !.wiped = IF m.invoked # <<>> THEN m.invoked[1][4] ELSE last.wiped]

\* One of the phase commands, run from the shell.
StandaloneMain ==
    /\ pc = "idle"
    /\ runs < MaxCommands
    /\ runs' = runs + 1
    /\ \E phase \in Phases :
        /\ call' = [fn |-> "main", phase |-> phase]
        /\ \/ /\ phase = "collect"
              /\ \E listing \in WorkflowListings :
                    LET m == collect_main(disk, listing) IN
                    disk' = m.file /\ last' = history_after(phase, m)
           \/ /\ phase = "plan"
              /\ \E available \in BOOLEAN, probes \in ListedProbes :
                    LET m == plan_main(disk, available, probes) IN
                    disk' = m.file /\ last' = history_after(phase, m)
           \/ /\ phase = "execute"
              /\ \E c \in WorkflowCmdOutcomes :
                 \E r1 \in WorkflowReadsAfter(c), r2 \in WorkflowReadsAfter(c) :
                    LET m == execute_main(disk, c, r1, r2) IN
                    disk' = m.file /\ last' = history_after(phase, m)
           \/ /\ phase = "report"
              /\ \E rendered \in BOOLEAN :
                    LET m == report_main(disk, rendered) IN
                    disk' = m.file /\ last' = history_after(phase, m)
    /\ UNCHANGED <<mem, pc>>

\* run_full_workflow, lines 16-26: the StateManager is constructed.
WorkflowStart ==
    /\ pc = "idle"
    /\ runs < MaxCommands
    /\ runs' = runs + 1
    /\ pc' = "workflow"
    /\ call' = [fn |-> "run_full_workflow", at |-> "collect", before |-> disk,
                mains |-> <<>>, confirm |-> "none", invoked |-> <<>>,
                returned |-> "none"]
    /\ UNCHANGED <<disk, mem, last>>

\* Lines 31-35.
WorkflowCollect ==
    /\ pc = "workflow"
    /\ call.at = "collect"
    /\ \E listing \in WorkflowListings :
        LET m == collect_main(disk, listing) IN
        /\ disk' = m.file
        /\ call' = after_main(call, m)
        /\ last' = history_after("collect", m)
    /\ pc' = IF call'.at = "done" THEN "idle" ELSE "workflow"
    /\ UNCHANGED <<mem, runs>>

\* Lines 39-43.
WorkflowPlan ==
    /\ pc = "workflow"
    /\ call.at = "plan"
    /\ \E available \in BOOLEAN, probes \in ListedProbes :
        LET m == plan_main(disk, available, probes) IN
        /\ disk' = m.file
        /\ call' = after_main(call, m)
        /\ last' = history_after("plan", m)
    /\ pc' = IF call'.at = "done" THEN "idle" ELSE "workflow"
    /\ UNCHANGED <<mem, runs>>

\* Lines 46-52: the prompt.
WorkflowConfirm ==
    /\ pc = "workflow"
    /\ call.at = "confirm"
    /\ \E confirm \in Answers :
        call' = [call EXCEPT !.confirm = confirm,
                             !.at = IF confirmed(confirm) THEN next_step("confirm")
                                    ELSE "done",
                             !.returned = IF confirmed(confirm) THEN "none" ELSE "False"]
    /\ pc' = IF call'.at = "done" THEN "idle" ELSE "workflow"
    /\ UNCHANGED <<disk, mem, last, runs>>

\* Lines 54-58.
WorkflowExecute ==
    /\ pc = "workflow"
    /\ call.at = "execute"
    /\ \E c \in WorkflowCmdOutcomes :
       \E r1 \in WorkflowReadsAfter(c), r2 \in WorkflowReadsAfter(c) :
        LET m == execute_main(disk, c, r1, r2) IN
        /\ disk' = m.file
        /\ call' = after_main(call, m)
        /\ last' = history_after("execute", m)
    /\ pc' = IF call'.at = "done" THEN "idle" ELSE "workflow"
    /\ UNCHANGED <<mem, runs>>

\* Lines 62-69.
WorkflowReport ==
    /\ pc = "workflow"
    /\ call.at = "report"
    /\ \E rendered \in BOOLEAN :
        LET m == report_main(disk, rendered) IN
        /\ disk' = m.file
        /\ call' = after_main(call, m)
        /\ last' = history_after("report", m)
    /\ pc' = "idle"
    /\ UNCHANGED <<mem, runs>>

NextWorkflow ==
    \/ StandaloneMain
    \/ WorkflowStart
    \/ WorkflowCollect
    \/ WorkflowPlan
    \/ WorkflowConfirm
    \/ WorkflowExecute
    \/ WorkflowReport

SpecWorkflow == Init /\ [][NextWorkflow]_vars

\* ------------------------------------------------------------ the store alone
\* StateManager driven through its public methods by an arbitrary caller,
\* with the two timestamps of the document.  Here mem is the _state of the
\* one open handle (pc = "store" while there is one) and disk the file; both
\* carry created_at and updated_at, "absent" where the key is missing.
Times == {"t1", "t2"}

NoKey == "absent"

Stamped(doc, created_at, updated_at) ==
    [kind |-> doc.kind, phases |-> doc.phases,
     created_at |-> created_at, updated_at |-> updated_at]

\* StateManager.__init__ / _load_state at time now: a fresh document gets
\* created_at; a parsed one is taken whole; {} has neither key.
StateManager_init(file, now) ==
    Stamped(load_state(file),
            IF file.kind = "absent" THEN now
            ELSE IF file.kind = "state" THEN file.created_at ELSE NoKey,
            IF file.kind = "state" THEN file.updated_at ELSE NoKey)

\* StateManager.save_state at time now: line 42 stamps the handle, lines
\* 43-44 write the file.
StateManager_save_state(st, now) ==
    [handle |-> [st EXCEPT !.updated_at = now],
     file |-> Stamped(save_state(st), st.created_at, now)]

\* Mutant: an unknown phase name gets a record instead of an error.
StateManager_update_phase_creates_record(st, file, phase, status, data, now) ==
    LET known == IF phase \in DOMAIN st.phases THEN st
                 ELSE [st EXCEPT !.phases =
                          [p \in DOMAIN st.phases \cup {phase} |->
                              IF p \in DOMAIN st.phases THEN st.phases[p]
                              ELSE [status |-> "pending", data |-> EmptyDict]]]
        saved == StateManager_save_state(update_phase(known, phase, status, data), now)
    IN  [raised |-> "none", handle |-> saved.handle, file |-> saved.file]

\* StateManager.update_phase as a whole: what it raises, and the handle and
\* the file it leaves.
StateManager_update_phase(st, file, phase, status, data, now) ==
    IF Raises(st) THEN [raised |-> "KeyError", handle |-> st, file |-> file]
    ELSE IF phase \notin DOMAIN st.phases THEN
        [raised |-> "ValueError", handle |-> st, file |-> file]
    ELSE
        LET saved == StateManager_save_state(update_phase(st, phase, status, data), now)
        IN  [raised |-> "none", handle |-> saved.handle, file |-> saved.file]

\* What callers pass: a known phase, a name that is no phase, and data
\* dicts that add a key, override a key, or carry a datetime object.
CallerPhases == {"plan", "archive"}
CallerStatuses == {"running", "completed"}
CallerData ==
    {EmptyDict, [a |-> 1], [b |-> 2], [a |-> 2],
     [erase_operation |->
        [status |-> "completed",
         start_time |-> "datetime.datetime(2026, 11, 4, 12, 0)",
         end_time |-> "datetime.datetime(2026, 11, 4, 12, 5)"]]}

\* The phases show_status lists, in its order.
show_status_phases == <<"collect", "plan", "execute", "report">>

\* Mutant: the status query saves the state it loaded.
show_status_saves(file, now) ==
    LET state_manager == StateManager_init(file, now) IN
    IF Raises(state_manager) THEN
        [raised |-> "KeyError", file |-> file, statuses |-> <<>>, devices |-> <<>>]
    ELSE
        [raised |-> "none",
         file |-> StateManager_save_state(state_manager, now).file,
         statuses |-> [i \in 1..Len(show_status_phases) |->
                          get_phase_status(state_manager, show_status_phases[i])],
         devices |-> Get(get_phase_data(state_manager, "collect"), "devices", <<>>)]

\* show_status at time now: its own StateManager on the file, the four
\* statuses in order, the devices of collect; file is the state file it
\* leaves.  A file that parses to {} makes the first status read raise.
show_status(file, now) ==
    LET state_manager == StateManager_init(file, now) IN
    IF Raises(state_manager) THEN
        [raised |-> "KeyError", file |-> file, statuses |-> <<>>, devices |-> <<>>]
    ELSE
        [raised |-> "none",
         file |-> file,
         statuses |-> [i \in 1..Len(show_status_phases) |->
                          get_phase_status(state_manager, show_status_phases[i])],
         devices |-> Get(get_phase_data(state_manager, "collect"), "devices", <<>>)]

\* StateManager(): a handle is constructed on the file as it is.
StoreOpen ==
    /\ pc \in {"idle", "store"}
    /\ \E now \in Times : mem' = StateManager_init(disk, now)
    /\ pc' = "store"
    /\ call' = [fn |-> "init"]
    /\ UNCHANGED <<disk, last, runs>>

\* update_phase(phase, status, data) on the open handle.
StoreUpdatePhase ==
    /\ pc = "store"
    /\ \E phase \in CallerPhases, status \in CallerStatuses, data \in CallerData, now \in Times :
        LET u == StateManager_update_phase(mem, disk, phase, status, data, now) IN
        /\ mem' = u.handle
        /\ disk' = u.file
        /\ call' = [fn |-> "update_phase", phase |-> phase, status |-> status,
                    data |-> data, raised |-> u.raised]
    /\ UNCHANGED <<pc, last, runs>>

\* get_phase_status(phase) and get_phase_data(phase) on the open handle.
StoreReadPhase ==
    /\ pc = "store"
    /\ \E phase \in Phases \cup CallerPhases :
        call' = [fn |-> "get_phase", phase |-> phase,
                 raised |-> Raises(mem),
                 status |-> get_phase_status(mem, phase),
                 data |-> get_phase_data(mem, phase)]
    /\ UNCHANGED <<disk, mem, pc, last, runs>>

\* save_state() on the open handle, then a new StateManager on the file
\* saves what it loaded.
StoreRoundTrip ==
    /\ pc = "store"
    /\ ~Raises(mem)
    /\ \E t1 \in Times, t2 \in Times, t3 \in Times :
        LET first == StateManager_save_state(mem, t1)
            second == StateManager_save_state(StateManager_init(first.file, t2), t3)
        IN  /\ mem' = second.handle
            /\ disk' = second.file
            /\ call' = [fn |-> "round_trip", first |-> first.file]
    /\ UNCHANGED <<pc, last, runs>>

\* The file is removed, or a writer that was killed left it torn.
StoreFileLost ==
    /\ \E after_open \in BOOLEAN, removed \in BOOLEAN :
        disk' = IF removed THEN AbsentFile ELSE torn_file(after_open)
    /\ call' = [fn |-> "file_lost"]
    /\ UNCHANGED <<mem, pc, last, runs>>

\* The status command, run while a handle may be open elsewhere.
StoreShowStatus ==
    /\ \E now \in Times :
        LET r == show_status(disk, now) IN
        /\ disk' = r.file
        /\ call' = [fn |-> "show_status", raised |-> r.raised,
                    statuses |-> r.statuses, devices |-> r.devices]
    /\ UNCHANGED <<mem, pc, last, runs>>

NextStore ==
    \/ StoreOpen
    \/ StoreShowStatus
    \/ StoreUpdatePhase
    \/ StoreReadPhase
    \/ StoreRoundTrip
    \/ StoreFileLost

SpecStore == Init /\ [][NextStore]_vars

\* ------------------------------------------------- two handles on one file
\* Two StateManager objects constructed on the same state file, as when
\* run_full_workflow holds one while a phase command constructs its own, or
\* when two commands run side by side.  mem is the _state of the first,
\* call.other the _state of the second; call.updates lists the update_phase
\* calls made so far, each handle making one.
HandleData == {EmptyDict, [a |-> 1]}

\* StateManager() twice, on the file as it is.
HandlesOpen ==
    /\ pc = "idle" \/ (pc = "handles" /\ Len(call.updates) = 2)
    /\ runs < MaxHandlePairs
    /\ runs' = runs + 1
    /\ \E t1 \in Times, t2 \in Times :
        /\ mem' = StateManager_init(disk, t1)
        /\ call' = [fn |-> "handles", other |-> StateManager_init(disk, t2),
                    updates |-> <<>>]
    /\ pc' = "handles"
    /\ UNCHANGED <<disk, last>>

\* update_phase(phase, status, data) on one of the two handles.
HandleUpdatePhase ==
    /\ pc = "handles"
    /\ \E handle \in {"first", "second"}, phase \in Phases, status \in CallerStatuses,
          data \in HandleData, now \in Times :
        /\ \A i \in 1 .. Len(call.updates) : call.updates[i].handle # handle
        /\ LET st == IF handle = "first" THEN mem ELSE call.other
               u == StateManager_update_phase(st, disk, phase, status, data, now)
           IN  /\ disk' = u.file
               /\ mem' = IF handle = "first" THEN u.handle ELSE mem
               /\ call' = [call EXCEPT
                              !.other = IF handle = "second" THEN u.handle ELSE @,
                              !.updates = Append(@, [handle |-> handle, phase |-> phase,
                                                     status |-> status, data |-> data])]
    /\ UNCHANGED <<pc, last, runs>>

NextHandles ==
    \/ HandlesOpen
    \/ HandleUpdatePhase

SpecHandles == Init /\ [][NextHandles]_vars


\* ==================================================================== claims
StatusIn(file, phase) == get_phase_status(load_state(file), phase)

Predecessor(phase) ==
    IF phase = "plan" THEN "collect" ELSE IF phase = "execute" THEN "plan" ELSE "execute"

ExecuteReturned == last.phase = "execute" /\ last.result = "returned"

IsWipeCommand(argv) == Len(argv) >= 3 /\ argv[2] = "nvme" /\ argv[3] = "format"

IsDeviceRead(argv) == Len(argv) >= 2 /\ argv[2] = "dd"

WipeInvocations == Len(SelectSeq(last.invoked, IsWipeCommand))

\* C1: whenever a run of the execute phase ends with an EraseOperation whose
\* status is failed, the persisted status of the execute phase after that run
\* is failed, never completed.
C1_FailedEraseMarksPhaseFailed ==
    (ExecuteReturned /\ last.operation.status = "failed")
        => PersistedStatus("execute") = "failed"

\* C2: plan, execute and report move to running, completed or failed only
\* while the persisted status of their immediate predecessor is completed.
C2_PhaseGating ==
    [][\A p \in {"plan", "execute", "report"} :
        (disk'.kind = "state" /\ StatusIn(disk', p) # StatusIn(disk, p))
            => StatusIn(disk, Predecessor(p)) = "completed"]_vars

C2_Witness ==
    /\ PersistedStatus("collect") = "completed"
    /\ PersistedStatus("plan") = "completed"
    /\ PersistedStatus("execute") = "completed"
    /\ PersistedStatus("report") = "completed"

\* C3: an execute process started while the plan phase is not completed
\* (pending, running or failed) invokes no command, records no
\* EraseOperation and leaves the state file, hence every phase record,
\* exactly as it was.
C3_ExecuteRefused ==
    [][(runs' = runs + 1 /\ last'.phase = "execute"
            /\ StatusIn(disk, "plan") # "completed")
        => /\ disk' = disk
           /\ pc' = "idle"
           /\ last'.invoked = <<>>
           /\ last'.operation = NoOperation]_vars

C3_Witness ==
    /\ last.phase = "execute"
    /\ last.result = "refused"
    /\ PersistedStatus("plan") = "failed"
    /\ PersistedStatus("execute") = "pending"

\* C4: whatever happens during update_phase/save_state, a subsequent load of
\* the state file observes a complete WorkflowState, never an empty,
\* truncated or partially written one.
C4_AtomicTransition == ~Raises(load_state(disk))

\* C5: for every capability set with at least one true flag the planner
\* selects crypto_erase if its flag is true, otherwise secure_erase if its
\* flag is true, otherwise format; every plan produced names a method whose
\* flag is true.
C5_MethodSelection ==
    call.fn = "create_plan" =>
        LET flag(m) == Get(call.erase_support, m, FALSE) IN
        /\ (call.available /\ \E m \in Methods : flag(m)) =>
            /\ call.result.ok
            /\ call.result.plan.erase_method =
                 IF flag("crypto_erase") THEN "crypto_erase"
                 ELSE IF flag("secure_erase") THEN "secure_erase"
                 ELSE "format"
        /\ call.result.ok =>
            /\ call.result.plan.erase_method \in Methods
            /\ flag(call.result.plan.erase_method)
            /\ call.result.plan.device.erase_support = call.erase_support

C5_Witness ==
    /\ call.fn = "create_plan"
    /\ ~Get(call.erase_support, "crypto_erase", FALSE)
    /\ Get(call.erase_support, "secure_erase", FALSE)
    /\ Get(call.erase_support, "format", FALSE)
    /\ call.result.ok
    /\ call.result.plan.erase_method = "secure_erase"

\* C6: for every sample with total bytes > 0, format and secure_erase expect
\* zeros and are effective exactly when the non-zero bytes are strictly
\* below 1% of the sample; crypto_erase expects random and is effective
\* exactly when the non-zero bytes are strictly above 50% of it.
C6_VerificationClassification ==
    (call.fn = "verify_wipe" /\ call.read.kind = "exited"
        /\ call.read.returncode = 0 /\ call.read.total_bytes > 0) =>
        LET total == call.read.total_bytes
            nonzero == call.read.non_zero_bytes
            v == call.result
        IN  /\ v.success
            /\ v.total_bytes = total
            /\ v.non_zero_bytes = nonzero
            /\ call.erase_method \in {"format", "secure_erase"} =>
                /\ v.expected_result = "zeros"
                /\ v.wipe_effective <=> (nonzero * 100 < total)
            /\ call.erase_method = "crypto_erase" =>
                /\ v.expected_result = "random"
                /\ v.wipe_effective <=> (nonzero * 2 > total)
            /\ (total = 1000 /\ nonzero = 5 /\ call.erase_method = "format")
                => v.wipe_effective
            /\ (total = 1000 /\ nonzero = 600) =>
                (v.wipe_effective <=> call.erase_method = "crypto_erase")

C6_Witness ==
    /\ call.fn = "verify_wipe"
    /\ call.erase_method = "crypto_erase"
    /\ call.read.kind = "exited"
    /\ call.read.total_bytes = 1000
    /\ call.read.non_zero_bytes = 600
    /\ call.result.success
    /\ call.result.wipe_effective

\* C7: in every reachable state, if the persisted execute-phase data
\* contains a verification entry then the erase_operation recorded in the
\* same data has status completed.
C7_VerificationOnlyForCompleted ==
    Has(PersistedData("execute"), "verification") =>
        /\ Has(PersistedData("execute"), "erase_operation")
        /\ PersistedData("execute")["erase_operation"].status = "completed"

\* C8: a wipe command that exceeds the timeout yields an EraseOperation with
\* status failed and the timeout error message, and the command is invoked
\* exactly once in that execute call.
C8_TimeoutFailsWithoutRetry ==
    (ExecuteReturned /\ last.cmd = "TimeoutExpired") =>
        /\ last.operation.status = "failed"
        /\ last.operation.error_message = "Command timed out after 1 hour"
        /\ WipeInvocations = 1
        /\ PersistedData("execute")["erase_operation"] = last.operation

C8_Witness ==
    /\ ExecuteReturned
    /\ last.cmd = "TimeoutExpired"
    /\ last.operation.status = "failed"

\* C9: a missing executable and a non-zero exit status both end the
\* EraseOperation as failed with a non-empty error message, the two messages
\* differ, and the EraseOperation is completed only when the command
\* returned exit status zero.
C9_NotFoundAndNonZeroExitFail ==
    ExecuteReturned =>
        /\ last.cmd = "FileNotFoundError" =>
            /\ last.operation.status = "failed"
            /\ last.operation.error_message = "Command not found: sudo"
        /\ (last.cmd = "exited" /\ last.returncode # 0) =>
            /\ last.operation.status = "failed"
            /\ last.operation.error_message \notin {None, "", "Command not found: sudo"}
        /\ last.operation.status = "completed"
            <=> (last.cmd = "exited" /\ last.returncode = 0)

C9_Witness ==
    /\ ExecuteReturned
    /\ last.cmd = "exited"
    /\ last.returncode # 0
    /\ last.operation.status = "failed"
    /\ last.operation.error_message = "Command failed with return code 1"

\* C10: whenever the wipe command exits with status zero a verification read
\* of the device is made after it and before the run returns, and a
\* persisted erase_operation with status completed always comes with a
\* verification entry in the same execute-phase data.
C10_CompletedEraseIsVerified ==
    /\ (Has(PersistedData("execute"), "erase_operation")
            /\ PersistedData("execute")["erase_operation"].status = "completed")
        => Has(PersistedData("execute"), "verification")
    /\ (ExecuteReturned /\ last.cmd = "exited" /\ last.returncode = 0) =>
        /\ last.operation.status = "completed"
        /\ Len(last.invoked) >= 2
        /\ IsWipeCommand(last.invoked[1])
        /\ \A i \in 2..Len(last.invoked) : IsDeviceRead(last.invoked[i])
        /\ Has(PersistedData("execute"), "verification")

C10_Witness ==
    /\ ExecuteReturned
    /\ last.cmd = "exited"
    /\ last.returncode = 0
    /\ PersistedData("execute")["erase_operation"].status = "completed"
    /\ Has(PersistedData("execute"), "verification")
    /\ ~PersistedData("execute")["verification"].success

\* C11: when the sample read of the verification that follows a completed
\* erase fails or times out, the recorded verification has success = false
\* and an error message, and neither the EraseOperation nor the persisted
\* execute status is downgraded: both stay "completed".
VerificationReadFailed ==
    /\ ExecuteReturned
    /\ \/ last.read = "TimeoutExpired"
       \/ last.read = "exited" /\ last.read_returncode # 0

C11_VerificationFailureKeepsCompleted ==
    VerificationReadFailed =>
        /\ Has(PersistedData("execute"), "verification")
        /\ ~PersistedData("execute")["verification"].success
        /\ PersistedData("execute")["verification"].error \in
               {"Verification timed out", "Failed to read device for verification"}
        /\ last.operation.status = "completed"
        /\ PersistedData("execute")["erase_operation"].status = "completed"
        /\ PersistedStatus("execute") = "completed"

C11_Witness ==
    /\ VerificationReadFailed
    /\ last.read = "TimeoutExpired"
    /\ PersistedStatus("execute") = "completed"

\* C12: update_phase merges.  A phase holding data D that is updated with a
\* non-empty P holds D overridden key-wise by P afterwards (D = {a: 1} and
\* P = {b: 2} give {a: 1, b: 2}), an empty P leaves D as it is, the file
\* holds the same keys, and no update removes a key the phase had.
UpdatePhaseStep == call'.fn = "update_phase" /\ call'.raised = "none"

C12_UpdatePhaseMerges ==
    [][UpdatePhaseStep =>
        LET D == mem.phases[call'.phase].data
            P == call'.data
            R == mem'.phases[call'.phase].data
        IN  /\ DOMAIN R = (DOMAIN D) \cup (DOMAIN P)
            /\ \A k \in DOMAIN P : R[k] = P[k]
            /\ \A k \in (DOMAIN D) \ (DOMAIN P) : R[k] = D[k]
            /\ (D = [a |-> 1] /\ P = [b |-> 2]) => R = [a |-> 1, b |-> 2]
            /\ DOMAIN disk'.phases[call'.phase].data = DOMAIN R
            /\ \A p \in Phases :
                /\ DOMAIN mem.phases[p].data \subseteq DOMAIN mem'.phases[p].data
                /\ p # call'.phase => mem'.phases[p] = mem.phases[p]
    ]_vars

C12_Witness ==
    /\ call.fn = "update_phase"
    /\ call.raised = "none"
    /\ call.data = [b |-> 2]
    /\ mem.phases[call.phase].data = [a |-> 1, b |-> 2]

\* C13: reading the status and the data of a phase that has no record in the
\* handle's state returns "pending" and empty data and does not raise,
\* whether the handle was constructed on no file, on a well-formed file or
\* on a file that does not parse.
NoRecord(st, phase) == Raises(st) \/ phase \notin DOMAIN st.phases

C13_AbsentPhaseReadsPending ==
    (call.fn = "get_phase" /\ NoRecord(mem, call.phase)) =>
        /\ ~call.raised
        /\ call.status = "pending"
        /\ call.data = EmptyDict

\* C14: update_phase called with a name that is no phase raises, and leaves
\* the handle's state and the file as they were: no status, no data and no
\* updated_at changes.
UnknownPhaseStep == call'.fn = "update_phase" /\ call'.phase \notin Phases

C14_UnknownPhaseChangesNothing ==
    [][UnknownPhaseStep =>
        /\ call'.raised \in {"ValueError", "KeyError"}
        /\ ~Raises(mem) => call'.raised = "ValueError"
        /\ mem' = mem
        /\ disk' = disk
    ]_vars

C14_Witness ==
    /\ call.fn = "update_phase"
    /\ call.phase = "archive"
    /\ call.raised = "ValueError"
    /\ call.data = [a |-> 2]
    /\ mem.phases["plan"].data = [a |-> 1]
    /\ disk.kind = "state"
    /\ disk.updated_at = "t1"

\* C15: a state that is saved, loaded by a new store and saved again gives
\* a file with the same status and the same data keys and values for every
\* phase as the first save; the two files differ in updated_at at most.
C15_RoundTrip ==
    call.fn = "round_trip" =>
        /\ disk.kind = call.first.kind
        /\ disk.created_at = call.first.created_at
        /\ DOMAIN disk.phases = DOMAIN call.first.phases
        /\ \A p \in DOMAIN disk.phases :
            /\ disk.phases[p].status = call.first.phases[p].status
            /\ DOMAIN disk.phases[p].data = DOMAIN call.first.phases[p].data
            /\ disk.phases[p].data = call.first.phases[p].data

C15_Witness ==
    /\ call.fn = "round_trip"
    /\ disk.updated_at # call.first.updated_at
    /\ disk.phases["plan"].status = "completed"
    /\ Has(disk.phases["plan"].data, "a")
    /\ Has(disk.phases["plan"].data, "erase_operation")
    /\ disk.phases["plan"].data["erase_operation"].start_time = "2026-11-04 12:00:00"

\* C16: whatever the two attribute queries of check_erase_support do (a
\* failed command, a missing tool, output that does not parse, missing
\* fields), the capability set it returns has format = true when the
\* attributes were absent or could not be read, and always has at least one
\* flag true.
AttributesRead(q) == q.kind = "exited" /\ q.json /\ DOMAIN q.info = {"fna", "oacs"}

C16_SomeMethodAlwaysSupported ==
    call.fn = "check_erase_support" =>
        /\ \E m \in Methods : call.result[m]
        /\ (~AttributesRead(call.sanitize_query) \/ call.format_query.kind # "exited")
              => call.result["format"]

\* C17: when the attribute set has bit 2 of fna set, crypto_erase is true
\* in the capability set, whatever the other bits of fna and of oacs are.
Classified ==
    /\ call.fn = "check_erase_support"
    /\ call.sanitize_query.kind = "exited"
    /\ call.sanitize_query.json
    /\ call.format_query.kind # "FileNotFoundError"

C17_CryptoBitGivesCryptoErase ==
    (/\ Classified
     /\ Has(call.sanitize_query.info, "fna")
     /\ call.sanitize_query.info["fna"] \in {4, 5, 6, 7})
        => call.result["crypto_erase"]

C17_Witness ==
    /\ Classified
    /\ call.sanitize_query.info = [fna |-> 6, oacs |-> 5]
    /\ call.result["crypto_erase"]
    /\ ~call.result["secure_erase"]

\* C18: secure_erase is true in the capability set exactly when bit 1 of
\* oacs is set in the attribute set, whatever the crypto-erase bit is.
C18_SecureEraseIffFormatBit ==
    Classified =>
        (call.result["secure_erase"] <=>
            /\ Has(call.sanitize_query.info, "oacs")
            /\ call.sanitize_query.info["oacs"] \in {2, 3, 6, 7})

C18_Witness ==
    /\ Classified
    /\ call.sanitize_query.info = [fna |-> 3, oacs |-> 3]
    /\ call.result["secure_erase"]
    /\ ~call.result["crypto_erase"]

\* C19: when the selected device is not available at planning time, the
\* plan run ends with the plan phase persisted as failed and the message
\* "Device <path> is no longer available" in its data, and that run
\* produces no execution plan (the data holds the plan it held before, if
\* any).
PlanReturns == pc = "plan" /\ last'.phase = "plan" /\ last'.result = "returned"

C19_UnavailableDeviceFailsPlan ==
    [][(PlanReturns /\ ~last'.available) =>
        LET before == get_phase_data(mem, "plan")
            after == get_phase_data(load_state(disk'), "plan")
            selected_device == select_device(get_phase_data(mem, "collect")["devices"])
        IN  /\ StatusIn(disk', "plan") = "failed"
            /\ after["error"] = "Device " \o selected_device.path \o " is no longer available"
            /\ Has(after, "execution_plan") <=> Has(before, "execution_plan")
            /\ Has(after, "execution_plan") =>
                    after["execution_plan"] = before["execution_plan"]
    ]_vars

C19_Witness ==
    /\ last.phase = "plan"
    /\ last.result = "returned"
    /\ ~last.available
    /\ PersistedStatus("plan") = "failed"
    /\ ~Has(PersistedData("plan"), "execution_plan")

\* C20: when no capability flag of the selected device is true (every flag
\* false or missing), planning fails with "No supported erase methods found",
\* the plan phase is persisted as failed with that message, and no method or
\* plan is put in its place.
NoFlagSet(erase_support) == \A m \in Methods : ~Get(erase_support, m, FALSE)

C20_NoSupportedMethodFailsPlan ==
    (call.fn = "create_plan" /\ call.available /\ NoFlagSet(call.erase_support)) =>
        /\ ~call.result.ok
        /\ call.result.error = "No supported erase methods found"
        /\ call.file.phases["plan"].status = "failed"
        /\ call.file.phases["plan"].data = [error |-> "No supported erase methods found"]

C20_Witness ==
    /\ call.fn = "create_plan"
    /\ call.available
    /\ call.erase_support = [format |-> FALSE]
    /\ call.file.phases["plan"].status = "failed"

\* C22: one run of the execute phase hands the wipe command to
\* subprocess.run at most once, whatever the command does, and every step
\* that invokes it is the body of an execute process that passed its gate:
\* the handle it loaded at its start, and the file, have plan completed.
WipeCount(invoked) == Len(SelectSeq(invoked, IsWipeCommand))

C22_NoRetryInsideExecute ==
    [][/\ WipeCount(last'.invoked) <= 1
       /\ (WipeCount(last'.invoked) = 1 /\ last' # last) =>
            /\ pc = "execute"
            /\ pc' = "idle"
            /\ get_phase_status(mem, "plan") = "completed"
            /\ StatusIn(disk, "plan") = "completed"
    ]_vars

C22_Witness ==
    /\ ExecuteReturned
    /\ last.cmd = "PermissionError"
    /\ WipeCount(last.invoked) = 1
    /\ last.operation.status = "failed"

\* C23: a step of the process of phase P leaves the record (status and
\* data) of every other phase in the state file as it was; and when P's
\* process ends with P failed, P's predecessor is still completed in the
\* file, so that P's gate admits a new run.
Actor == IF pc # "idle" THEN pc ELSE pc'

RecordIn(file, phase) ==
    [status |-> StatusIn(file, phase), data |-> get_phase_data(load_state(file), phase)]

C23_RunChangesOnlyOwnRecord ==
    [][/\ \A p \in Phases \ {Actor} : RecordIn(disk', p) = RecordIn(disk, p)
       /\ (pc \in {"plan", "execute", "report"} /\ pc' = "idle"
                /\ StatusIn(disk', pc) = "failed")
            => StatusIn(disk', Predecessor(pc)) = "completed"
    ]_vars

\* C24: for every capacity reported in TB, the estimated minutes for
\* crypto_erase are at most those for format, which are at most those for
\* secure_erase.
C24_DurationOrdering ==
    (call.fn = "estimate_duration" /\ call.capacity.unit = "TB") =>
        /\ call.result["crypto_erase"].known
        /\ call.result["crypto_erase"].minutes <= call.result["format"].minutes
        /\ call.result["format"].minutes <= call.result["secure_erase"].minutes

\* C26: the command of a plan is `sudo nvme format <path of the plan's
\* device>` for all three methods, with --ses=2 exactly for crypto_erase,
\* --ses=1 exactly for secure_erase and no --ses for format; a method that is
\* none of the three gives an error and no command.
InArgs(args, a) == \E i \in 1 .. Len(args) : args[i] = a

CommandMatches(command, path, method) ==
    /\ command.command = "sudo"
    /\ Len(command.args) >= 3
    /\ command.args[1] = "nvme"
    /\ command.args[2] = "format"
    /\ command.args[3] = path
    /\ InArgs(command.args, "--ses=2") <=> method = "crypto_erase"
    /\ InArgs(command.args, "--ses=1") <=> method = "secure_erase"
    /\ method = "format" => command.args = <<"nvme", "format", path, "--force">>

C26_CommandMatchesMethod ==
    /\ (call.fn = "create_plan" /\ call.result.ok) =>
            CommandMatches(call.result.plan.command, call.result.plan.device.path,
                           call.result.plan.erase_method)
    /\ call.fn = "build_command" =>
            IF call.method \in Methods
            THEN CommandMatches(call.result, call.path, call.method)
            ELSE call.result.command = "ValueError" /\ call.result.args = <<>>

C26_Witness ==
    /\ call.fn = "create_plan"
    /\ call.result.ok
    /\ call.result.plan.erase_method = "secure_erase"
    /\ InArgs(call.result.plan.command.args, "--ses=1")

\* C27: for every sample with total bytes > 0, zero_bytes + non_zero_bytes
\* is total_bytes and zero_percentage is zero_bytes / total_bytes * 100
\* rounded to two decimals, that is, the hundredth nearest to it (1000 bytes
\* with 5 non-zero give 99.5).  zero_percentage is held in hundredths.
C27_ZeroPercentage ==
    (call.fn = "verify_wipe" /\ call.result.success) =>
        LET v == call.result
            err == v.zero_percentage * v.total_bytes - v.zero_bytes * 10000
        IN  /\ v.total_bytes > 0
            /\ v.zero_bytes + v.non_zero_bytes = v.total_bytes
            /\ 2 * err <= v.total_bytes
            /\ 2 * err >= 0 - v.total_bytes
            /\ (v.total_bytes = 1000 /\ v.non_zero_bytes = 5) => v.zero_percentage = 9950

C27_Witness ==
    /\ call.fn = "verify_wipe"
    /\ call.result.success
    /\ call.result.total_bytes = 101
    /\ call.result.non_zero_bytes = 3
    /\ call.result.zero_percentage = 9703

\* C30: the verification an execute run persists is classified by the
\* method of the plan: expected result "random" and the above-50%-non-zero
\* rule when the plan's method is crypto_erase, expected result "zeros" and
\* the below-1%-non-zero rule when it is format or secure_erase.
C30_VerificationUsesPlanMethod ==
    (/\ ExecuteReturned
     /\ last.operation.status = "completed"
     /\ Has(PersistedData("execute"), "verification")
     /\ PersistedData("execute")["verification"].success) =>
        LET method == PersistedData("plan")["execution_plan"].erase_method
            v == PersistedData("execute")["verification"]
        IN  IF method = "crypto_erase"
            THEN /\ v.expected_result = "random"
                 /\ v.wipe_effective <=> (2 * v.non_zero_bytes > v.total_bytes)
            ELSE /\ v.expected_result = "zeros"
                 /\ v.wipe_effective <=> (100 * v.non_zero_bytes < v.total_bytes)

\* C25: whatever the safety probes find, planning succeeds when the device
\* is available and a method is supported; the plan's safety issues are the
\* findings in the order found (mounted, then in use), and its warnings are
\* the three fixed warnings, then the warning of the chosen method, then
\* every safety issue as it is.
C25_SafetyIssuesAreAdvisory ==
    (call.fn = "create_plan" /\ call.available /\ ~NoFlagSet(call.erase_support)) =>
        /\ call.result.ok
        /\ LET plan == call.result.plan
               path == plan.device.path
               mounted ==
                   IF call.probes.mounted = "findmnt"
                       THEN <<"Device " \o path \o " is currently mounted">>
                   ELSE IF call.probes.mounted = "mount"
                       THEN <<"Device " \o path \o " appears to be mounted">>
                   ELSE <<>>
               in_use ==
                   IF call.probes.in_use
                       THEN <<"Device " \o path \o " is in use by other processes">>
                   ELSE <<>>
               specific ==
                   IF plan.erase_method = "crypto_erase"
                       THEN "Crypto erase will destroy encryption keys"
                   ELSE IF plan.erase_method = "secure_erase"
                       THEN "Secure erase will overwrite all data"
                   ELSE "Format will remove all data and partition tables"
           IN  /\ plan.safety_issues = mounted \o in_use
               /\ Len(plan.warnings) = 4 + Len(plan.safety_issues)
               /\ SubSeq(plan.warnings, 1, 3) =
                     <<"THIS OPERATION WILL PERMANENTLY DESTROY ALL DATA ON THE DEVICE",
                       "This operation cannot be undone",
                       "Ensure you have backed up any important data">>
               /\ plan.warnings[4] = specific
               /\ SubSeq(plan.warnings, 5, Len(plan.warnings)) = plan.safety_issues
               /\ call.file.phases["plan"].status = "completed"
               /\ call.file.phases["plan"].data["execution_plan"].warnings = plan.warnings

C25_Witness ==
    /\ call.fn = "create_plan"
    /\ call.result.ok
    /\ call.probes = [mounted |-> "mount", in_use |-> TRUE]
    /\ Len(call.result.plan.warnings) = 6
    /\ call.result.plan.erase_method = "format"

\* C28: show_status leaves the state file as it found it, whatever was
\* persisted: every phase status, all phase data, created_at and updated_at;
\* a missing file stays missing.
C28_StatusQueryIsPureRead ==
    [][call'.fn = "show_status" => disk' = disk]_vars

C28_Witness ==
    /\ call.fn = "show_status"
    /\ call.raised = "none"
    /\ disk.kind = "state"
    /\ disk.updated_at = "t1"
    /\ call.statuses = <<"pending", "completed", "pending", "pending">>
    /\ Has(disk.phases["plan"].data, "a")

\* C21 as stated: after the workflow was cancelled at the prompt (any answer
\* but YES), the wipe command was not invoked, the execute phase status is
\* pending and the execute phase data holds no erase_operation.
Cancelled ==
    /\ call.fn = "run_full_workflow"
    /\ call.at = "done"
    /\ call.confirm \notin {"none", "YES"}

C21_CancelLeavesExecutePending ==
    Cancelled =>
        /\ WipeCount(call.invoked) = 0
        /\ StatusIn(disk, "execute") = "pending"
        /\ ~Has(get_phase_data(load_state(disk), "execute"), "erase_operation")

\* C21, amended: after the workflow was cancelled at the prompt, this
\* workflow run made no subprocess call for the wipe and never called
\* execute_main, and the execute record of the state file (status and data)
\* is what it was when the workflow started: pending without an
\* erase_operation if execute had never run.
C21_CancelLeavesExecuteUntouched ==
    Cancelled =>
        /\ call.invoked = <<>>
        /\ call.mains = <<"collect", "plan">>
        /\ call.returned = "False"
        /\ disk.phases["execute"] = call.before.phases["execute"]
        /\ StatusIn(call.before, "execute") = "pending" =>
                /\ StatusIn(disk, "execute") = "pending"
                /\ get_phase_data(load_state(disk), "execute") = EmptyDict

C21_Witness ==
    /\ Cancelled
    /\ call.confirm = "yes"
    /\ StatusIn(disk, "plan") = "completed"
    /\ StatusIn(disk, "execute") = "pending"

\* C29: in every run of run_full_workflow the phase commands are called in
\* the order collect_main, plan_main, execute_main, report_main, each at most
\* once; execute_main is called, and so the wipe command invoked, only after
\* collect_main and plan_main were called and the answer typed at the prompt
\* was exactly YES; report_main is called only after execute_main.
IsPrefix(s, t) == Len(s) <= Len(t) /\ s = SubSeq(t, 1, Len(s))

C29_ConfirmationBeforeDestruction ==
    call.fn = "run_full_workflow" =>
        /\ IsPrefix(call.mains, <<"collect", "plan", "execute", "report">>)
        /\ Len(call.mains) >= 3 => call.confirm = "YES"
        /\ call.at \in {"execute", "report"} => call.confirm = "YES"
        /\ call.invoked # <<>> =>
                /\ call.confirm = "YES"
                /\ SubSeq(call.mains, 1, 3) = <<"collect", "plan", "execute">>
        /\ call.at = "report" => call.mains = <<"collect", "plan", "execute">>

C29_Witness ==
    /\ call.fn = "run_full_workflow"
    /\ call.confirm = "YES"
    /\ call.mains = <<"collect", "plan", "execute", "report">>
    /\ WipeCount(call.invoked) = 1
    /\ StatusIn(disk, "report") = "completed"


\* C31: an execute run that passed its gate, whose wipe command exited with
\* status zero and whose verification read succeeded, leaves the execute
\* phase status completed when it returns.
FullySuccessfulRun ==
    /\ ExecuteReturned
    /\ last.cmd = "exited"
    /\ last.returncode = 0
    /\ last.read = "exited"
    /\ last.read_returncode = 0
    /\ Has(PersistedData("execute"), "verification")
    /\ PersistedData("execute")["verification"].success

C31_SuccessfulRunEndsCompleted ==
    FullySuccessfulRun => PersistedStatus("execute") = "completed"


\* C32: the report phase becomes completed only for a wipe that succeeded:
\* in every step that persists report completed, the erase_operation in the
\* execute data the report run loaded has status completed.
ReportCompletes ==
    /\ pc = "report"
    /\ StatusIn(disk', "report") = "completed"

C32_ReportOnlyForSucceededWipe ==
    [][ReportCompletes =>
        /\ Has(get_phase_data(mem, "execute"), "erase_operation")
        /\ get_phase_data(mem, "execute")["erase_operation"].status = "completed"]_vars


\* C33: the check run_full_workflow makes after a phase command reflects the
\* status that command just persisted: the workflow goes on to its next
\* step exactly when the phase just run is completed in the state file.
C33_CheckReflectsPersistedStatus ==
    [][(pc = "workflow" /\ call.at \in {"collect", "plan", "execute"}) =>
        (call'.at = next_step(call.at) <=> StatusIn(disk', call.at) = "completed")]_vars


\* C34: whenever the plan phase is completed in the state file, its data
\* holds an execution_plan whose erase_method has a true flag in the
\* erase_support of the plan's device and whose command is the one for that
\* method and that device's path; and in the plan run that persists it, the
\* plan's device is one of the devices in the collect data that run loaded.
IsElement(seq, x) == \E i \in 1 .. Len(seq) : seq[i] = x

C34_CompletedPlanIsBound ==
    [][(disk'.kind = "state" /\ StatusIn(disk', "plan") = "completed") =>
        LET plan_data == get_phase_data(load_state(disk'), "plan") IN
        /\ Has(plan_data, "execution_plan")
        /\ LET plan == plan_data["execution_plan"] IN
           /\ plan.erase_method \in Methods
           /\ Has(plan.device.erase_support, plan.erase_method)
           /\ plan.device.erase_support[plan.erase_method]
           /\ CommandMatches(plan.command, plan.device.path, plan.erase_method)
           /\ PlanReturns =>
                IsElement(Get(get_phase_data(mem, "collect"), "devices", <<>>), plan.device)
    ]_vars

C34_Witness ==
    /\ last.phase = "plan"
    /\ last.result = "returned"
    /\ PersistedStatus("plan") = "completed"
    /\ PersistedData("plan")["execution_plan"].erase_method = "format"
    /\ PersistedData("plan")["execution_plan"].device.path = "/dev/nvme1n1"
    /\ PersistedData("collect")["devices"][1].path = "/dev/nvme1n1"


\* C35: the device described in a generated report is the device that was
\* wiped: the path of the report's device_info is the device path of the
\* wipe command most recently invoked, and the report's device_info is the
\* device of the execution plan the report contains.
ReportGenerated == last.phase = "report" /\ last.report.generated

C35_ReportDescribesWipedDevice ==
    ReportGenerated =>
        /\ last.report.device_info.path = last.wiped
        /\ last.report.device_info = last.report.execution_plan.device


\* C36: whenever the collect phase is completed in the state file, its data
\* holds a non-empty devices list with device_count >= 1 and every device
\* carries an erase_support capability set.
C36_CompletedCollectHasDevices ==
    (disk.kind = "state" /\ PersistedStatus("collect") = "completed") =>
        LET collect_data == PersistedData("collect") IN
        /\ Has(collect_data, "devices")
        /\ collect_data["devices"] # <<>>
        /\ collect_data["device_count"] >= 1
        /\ \A i \in 1 .. Len(collect_data["devices"]) :
                DOMAIN collect_data["devices"][i].erase_support = Methods


\* C37: every phase status in a state file that can be read is pending,
\* running, completed or failed; when a phase command returns normally
\* after passing its gate, its phase is completed or failed in the file,
\* not running; when its gate refused the run, the file is as it was.
C37_StatusesAreTerminalOnReturn ==
    [][/\ disk'.kind = "state" =>
            \A p \in Phases :
                StatusIn(disk', p) \in {"pending", "running", "completed", "failed"}
       /\ (last' # last /\ last'.result = "returned") =>
            /\ disk'.kind = "state"
            /\ StatusIn(disk', last'.phase) \in {"completed", "failed"}
       /\ (last' # last /\ last'.result = "refused") => disk' = disk
    ]_vars

C37_Witness ==
    /\ last.phase = "execute"
    /\ last.result = "returned"
    /\ last.cmd = "exited"
    /\ last.returncode = 0
    /\ PersistedStatus("execute") = "failed"
    /\ PersistedStatus("plan") = "completed"


\* C38: for every outcome of the wipe command and of the verification read,
\* the EraseOperation execute_wipe returns has status completed or failed,
\* an end time that is set and not earlier than its start time, and status
\* completed exactly when the command exited with status zero.
NotEarlier(later, earlier) == later = earlier \/ (earlier = "t1" /\ later = "t2")

EmptySampleRead ==
    /\ ExecuteReturned
    /\ last.read = "exited"
    /\ last.read_returncode = 0
    /\ last.read_total_bytes = 0

C39_EmptySampleFailsVerification ==
    EmptySampleRead =>
        /\ Has(PersistedData("execute"), "verification")
        /\ ~PersistedData("execute")["verification"].success
        /\ Has(PersistedData("execute")["verification"], "error")
        /\ ~Has(PersistedData("execute")["verification"], "wipe_effective")
        /\ last.operation.status = "completed"
        /\ PersistedStatus("execute") = "completed"

C39_Witness ==
    /\ EmptySampleRead
    /\ PersistedData("execute")["verification"].error =
            "Verification failed: division by zero"
    /\ PersistedStatus("execute") = "completed"


\* C40: when two handles loaded from the same state file have each made one
\* update_phase, on different phases, the file holds both updates: each
\* phase has the status it was given and every key of the data passed.
BothUpdated ==
    /\ call.fn = "handles"
    /\ Len(call.updates) = 2
    /\ call.updates[1].phase # call.updates[2].phase

C40_NoLostUpdates ==
    BothUpdated =>
        \A i \in 1 .. 2 :
            LET u == call.updates[i] IN
            /\ disk.phases[u.phase].status = u.status
            /\ \A k \in DOMAIN u.data : Has(disk.phases[u.phase].data, k)

====
